---- MODULE Spec2Model ----
(***************************************************************************)
(* A model of redisearch-go's request serialization (query.go): the bulk   *)
(* indexing pipeline Client.IndexOptions, Paging.serialize,                *)
(* Query.serialize, SerializeSchema and SerializeIndexingOptions.          *)
(*                                                                         *)
(* Go values are modelled as follows.  A nil slice, pointer, interface or  *)
(* error is the record Nil; a non-nil slice is a sequence (possibly        *)
(* empty), wrapped as [kind |-> "slice", elems |-> <<...>>] wherever nil   *)
(* and empty must be told apart.  redis.Args is a sequence of tokens; a    *)
(* token is a string or an integer, wrapped as Str(s) or IntT(i) so that    *)
(* the two can be compared.                                                *)
(***************************************************************************)
EXTENDS Integers, Sequences, FiniteSets, TLC

VARIABLES
    \* ---- Client.IndexOptions ----
    pc,        \* position in IndexOptions: "start", "send", "flush", "receive", "done"
    ndocs,     \* len(docs)
    opts,      \* the IndexingOptions argument of IndexOptions
    ii,        \* index of the send loop
    n,         \* number of commands sent and not yet received
    merr,      \* the MultiError under construction (Nil until the first failure)
    ret,       \* the value IndexOptions returned (Pending until it returns)
    conn,      \* the pooled connection: "none", "open", "closed"
    calls,     \* every call made on the connection, in order
    pending,   \* doc indexes whose command was queued and whose reply is still to be read
    gets,      \* number of i.pool.Get() calls
    closes,    \* number of conn.Close() calls
    \* ---- Query.serialize / Paging.serialize ----
    q,         \* the Query value
    qargs,     \* the redis.Args Query.serialize returned (Unset before the call)
    \* ---- SerializeSchema ----
    s,         \* the Schema value
    sres,      \* what SerializeSchema returned: [args, err] (Unset before the call)
    \* ---- SerializeIndexingOptions ----
    callerOpts, \* the caller's IndexingOptions value
    ioargs,     \* the redis.Args SerializeIndexingOptions returned (Unset before the call)
    \* ---- benchmarkAggregateCursor / Client.Aggregate ----
    bpc,        \* position in benchmarkAggregateCursor: "outer", "aggregate", "check", "read", "done"
    bN,         \* b.N
    bn,         \* the counter n of the outer loop
    withCursor, \* whether the AggregateQuery asks for a cursor
    cursorId,   \* the cursor handle stored on the AggregateQuery (0: none)
    cmds,       \* the commands Aggregate issued in this iteration of the outer loop, with their replies
    \* ---- Client.MultiGet ----
    store,      \* the identifiers of the documents held by the index
    ids,        \* the documentIds argument of MultiGet
    mres        \* what MultiGet returned: [docs, err] (Unset before the call)

indexVars  == <<pc, ndocs, opts, ii, n, merr, ret, conn, calls, pending, gets, closes>>
queryVars  == <<q, qargs>>
schemaVars == <<s, sres>>
ioVars     == <<callerOpts, ioargs>>
aggVars    == <<bpc, bN, bn, withCursor, cursorId, cmds>>
mgetVars   == <<store, ids, mres>>
vars == <<pc, ndocs, opts, ii, n, merr, ret, conn, calls, pending, gets, closes,
          q, qargs, s, sres, callerOpts, ioargs,
          bpc, bN, bn, withCursor, cursorId, cmds, store, ids, mres>>

----------------------------------------------------------------------------
(* Bounds of the model *)
MaxDocs == 3        \* documents in one IndexOptions batch
MaxOffset == 2      \* paging offsets -1..MaxOffset
MaxNum == 11        \* paging nums -1..MaxNum (covers DefaultNum)
MaxLen == 2         \* length of a collection (in-keys, fields, stopwords)
MaxFields == 2      \* fields of a schema
MaxBenchN == 2      \* iterations b.N of the benchmark loop
MaxHandle == 2      \* cursor handles 1..MaxHandle (0: exhausted)
MaxReads == 3       \* replies with a non-zero handle the server gives for one aggregation
MaxIds == 3         \* identifiers in one MultiGet request

----------------------------------------------------------------------------
(* Go values *)
Nil   == [kind |-> "nil"]
Unset == [kind |-> "unset"]
Str(x) == [kind |-> "str", v |-> x]
IntT(x) == [kind |-> "int", v |-> x]
Slice(xs) == [kind |-> "slice", elems |-> xs]
Min(a, b) == IF a < b THEN a ELSE b

\* redis.Args.Add(...): append the given tokens
Add(args, toks) == args \o toks
\* redis.Args.AddFlat(slice): append every element of a slice of strings
AddFlat(args, strs) == args \o [k \in 1..Len(strs) |-> Str(strs[k])]

----------------------------------------------------------------------------
(* SerializeIndexingOptions (query.go 446-469) *)

\* a plausible bug: Partial no longer forces Replace
NoCoerceOptions(o) == o

\* opts.Partial forces opts.Replace on the function's own copy of opts
\* (query.go 455-457)
CoerceOptions(o) == IF o.Partial THEN [o EXCEPT !.Replace = TRUE] ELSE o

SerializeIndexingOptions(o, args) ==
    LET a1 == IF o.NoSave THEN Add(args, <<Str("NOSAVE")>>) ELSE args
        a2 == IF o.Language # "" THEN Add(a1, <<Str("LANGUAGE"), Str(o.Language)>>) ELSE a1
        c  == CoerceOptions(o)
        a3 == IF c.Replace THEN Add(a2, <<Str("REPLACE")>>) ELSE a2
        a4 == IF c.Replace /\ c.Partial THEN Add(a3, <<Str("PARTIAL")>>) ELSE a3
        a5 == IF c.Replace /\ c.ReplaceCondition # ""
              THEN Add(a4, <<Str("IF"), Str(c.ReplaceCondition)>>) ELSE a4
    IN  a5

----------------------------------------------------------------------------
(* Client.IndexOptions (query.go 391-444) *)

Pending == [kind |-> "pending"]
NoErr == [op |-> "none", doc |-> -1]
SendErr(i) == [op |-> "Send", doc |-> i]
FlushErr == [op |-> "Flush", doc |-> -1]
\* the error reply the server gave for document i
ReceiveErr(i) == [op |-> "Receive", doc |-> i]

\* NewMultiError(n): n absent slots, indexed from 0
NewMultiError(len) == [kind |-> "MultiError", slots |-> [k \in 0..(len - 1) |-> NoErr]]

\* if merr == nil { merr = NewMultiError(len(docs)) }; merr[k] = err
SetSlot(m, k, err) ==
    LET m1 == IF m = Nil THEN NewMultiError(ndocs) ELSE m
    IN  [m1 EXCEPT !.slots[k] = err]

\* the documents of the batch: document k has id k, score 1, a payload when k
\* is odd, and one property
Doc(k) == [Id |-> k, Score |-> 1,
           Payload |-> IF k % 2 = 1 THEN Str("payload") ELSE Nil,
           Properties |-> <<Str("title"), Str("hello")>>]

\* the arguments of FT.ADD for one document (query.go 400-412)
AddArgs(doc) ==
    LET a1 == <<Str("idx"), IntT(doc.Id), IntT(doc.Score)>>
        a2 == SerializeIndexingOptions(opts, a1)
        a3 == IF doc.Payload # Nil THEN Add(a2, <<Str("PAYLOAD"), doc.Payload>>) ELSE a2
        a4 == Add(a3, <<Str("FIELDS")>>)
    IN  a4 \o doc.Properties

Call(op, doc, ok, args) == [op |-> op, doc |-> doc, ok |-> ok, args |-> args]

\* a plausible bug: the connection is not closed on return (no defer)
ReturnNoClose(v) ==
    /\ ret' = v
    /\ UNCHANGED <<conn, closes>>
    /\ pc' = "done"

\* return v: the deferred conn.Close() runs as the function returns
Return(v) ==
    /\ ret' = v
    /\ conn' = "closed"
    /\ closes' = closes + 1
    /\ pc' = "done"

\* conn := i.pool.Get(); defer conn.Close(); n := 0; var merr MultiError
Acquire ==
    /\ pc = "start"
    /\ conn' = "open"
    /\ gets' = gets + 1
    /\ n' = 0
    /\ ii' = 0
    /\ merr' = Nil
    /\ pc' = IF ndocs = 0 THEN "flush" ELSE "send"
    /\ UNCHANGED <<ndocs, opts, ret, calls, pending, closes>>

\* a plausible bug: a failed Send is recorded and the loop goes on
SendStepNoAbort(ok) ==
    /\ pc = "send"
    /\ ii < ndocs
    /\ calls' = Append(calls, Call("Send", ii, ok, AddArgs(Doc(ii))))
    /\ IF ok
       THEN /\ n' = n + 1
            /\ pending' = Append(pending, ii)
            /\ UNCHANGED merr
       ELSE /\ merr' = SetSlot(merr, ii, SendErr(ii))
            /\ UNCHANGED <<n, pending>>
    /\ ii' = ii + 1
    /\ pc' = IF ii + 1 < ndocs THEN "send" ELSE "flush"
    /\ UNCHANGED <<ret, conn, closes>>
    /\ UNCHANGED <<ndocs, opts, gets>>

\* one iteration of the send loop (query.go 399-423)
SendStep(ok) ==
    /\ pc = "send"
    /\ ii < ndocs
    /\ calls' = Append(calls, Call("Send", ii, ok, AddArgs(Doc(ii))))
    /\ IF ok
       THEN /\ n' = n + 1
            /\ ii' = ii + 1
            /\ pending' = Append(pending, ii)
            /\ pc' = IF ii + 1 < ndocs THEN "send" ELSE "flush"
            /\ UNCHANGED <<merr, ret, conn, closes>>
       ELSE /\ merr' = SetSlot(merr, ii, SendErr(ii))
            /\ Return(merr')
            /\ UNCHANGED <<n, ii, pending>>
    /\ UNCHANGED <<ndocs, opts, gets>>

\* a plausible bug: the Flush error is dropped and the replies are read anyway
FlushStepIgnoreErr(ok) ==
    /\ pc = "flush"
    /\ calls' = Append(calls, Call("Flush", -1, ok, <<>>))
    /\ pc' = "receive"
    /\ UNCHANGED <<ret, conn, closes>>
    /\ UNCHANGED <<ndocs, opts, ii, n, merr, pending, gets>>

\* if err := conn.Flush(); err != nil { return err } (query.go 425-427)
FlushStep(ok) ==
    /\ pc = "flush"
    /\ calls' = Append(calls, Call("Flush", -1, ok, <<>>))
    /\ IF ok
       THEN /\ pc' = "receive"
            /\ UNCHANGED <<ret, conn, closes>>
       ELSE Return([kind |-> "error", err |-> FlushErr])
    /\ UNCHANGED <<ndocs, opts, ii, n, merr, pending, gets>>

\* the slot a failed Receive is recorded in: merr[n-1] (query.go 434)
ReceiveSlot == n - 1

\* the document whose reply the next Receive reads: replies arrive in send
\* order (when nothing is pending, Receive can only fail)
NextReply == IF pending # <<>> THEN Head(pending) ELSE -1

\* a plausible bug: the first failed Receive ends the call
ReceiveStepAbort(ok) ==
    /\ pc = "receive"
    /\ n > 0
    /\ ok => pending # <<>>
    /\ calls' = Append(calls, Call("Receive", NextReply, ok, <<>>))
    /\ pending' = IF pending # <<>> THEN Tail(pending) ELSE pending
    /\ IF ok
       THEN /\ n' = n - 1
            /\ UNCHANGED <<merr, pc, ret, conn, closes>>
       ELSE /\ merr' = SetSlot(merr, ReceiveSlot, ReceiveErr(NextReply))
            /\ Return(merr')
            /\ UNCHANGED n
    /\ UNCHANGED <<ndocs, opts, ii, gets>>

\* one iteration of the receive loop (query.go 429-437)
ReceiveStep(ok) ==
    /\ pc = "receive"
    /\ n > 0
    /\ ok => pending # <<>>
    /\ calls' = Append(calls, Call("Receive", NextReply, ok, <<>>))
    /\ pending' = IF pending # <<>> THEN Tail(pending) ELSE pending
    /\ merr' = IF ok THEN merr ELSE SetSlot(merr, ReceiveSlot, ReceiveErr(NextReply))
    /\ n' = n - 1
    /\ UNCHANGED <<ndocs, opts, ii, pc, ret, conn, closes, gets>>

\* a plausible bug: the recorded failures are dropped on return
FinishAlwaysNil ==
    /\ pc = "receive"
    /\ n = 0
    /\ Return(Nil)
    /\ UNCHANGED <<ndocs, opts, ii, n, merr, calls, pending, gets>>

\* if merr == nil { return nil }; return merr (query.go 439-443)
Finish ==
    /\ pc = "receive"
    /\ n = 0
    /\ Return(IF merr = Nil THEN Nil ELSE merr)
    /\ UNCHANGED <<ndocs, opts, ii, n, merr, calls, pending, gets>>

----------------------------------------------------------------------------
(* Query flags and paging defaults (query.go 14-34) *)
QueryVerbatim == 1
QueryNoContent == 2
QueryWithScores == 4
QueryInOrder == 8
QueryWithPayloads == 16
DefaultOffset == 0
DefaultNum == 10

\* q.Flags & bit != 0, for a single-bit mask
HasFlag(flags, bit) == (flags \div bit) % 2 = 1

\* a plausible bug: LIMIT is dropped as soon as one of the two is the default
PagingSerializeEither(p) ==
    IF ~(p.Offset = DefaultOffset \/ p.Num = DefaultNum)
    THEN <<Str("LIMIT"), IntT(p.Offset), IntT(p.Num)>>
    ELSE <<>>

\* Paging.serialize (query.go 110-119)
PagingSerialize(p) ==
    IF ~(p.Offset = DefaultOffset /\ p.Num = DefaultNum)
    THEN <<Str("LIMIT"), IntT(p.Offset), IntT(p.Num)>>
    ELSE <<>>

\* a plausible bug: the flags are emitted in the order of their bit values
FlagTokensBitOrder(flags) ==
    (IF HasFlag(flags, QueryVerbatim) THEN <<Str("VERBATIM")>> ELSE <<>>)
    \o (IF HasFlag(flags, QueryNoContent) THEN <<Str("NOCONTENT")>> ELSE <<>>)
    \o (IF HasFlag(flags, QueryWithScores) THEN <<Str("WITHSCORES")>> ELSE <<>>)
    \o (IF HasFlag(flags, QueryInOrder) THEN <<Str("INORDER")>> ELSE <<>>)
    \o (IF HasFlag(flags, QueryWithPayloads) THEN <<Str("WITHPAYLOADS")>> ELSE <<>>)

\* the flag tokens of Query.serialize (query.go 134-150)
FlagTokens(flags) ==
    (IF HasFlag(flags, QueryVerbatim) THEN <<Str("VERBATIM")>> ELSE <<>>)
    \o (IF HasFlag(flags, QueryNoContent) THEN <<Str("NOCONTENT")>> ELSE <<>>)
    \o (IF HasFlag(flags, QueryInOrder) THEN <<Str("INORDER")>> ELSE <<>>)
    \o (IF HasFlag(flags, QueryWithPayloads) THEN <<Str("WITHPAYLOADS")>> ELSE <<>>)
    \o (IF HasFlag(flags, QueryWithScores) THEN <<Str("WITHSCORES")>> ELSE <<>>)

\* INKEYS and RETURN of Query.serialize (query.go 152-160):
\* if coll != nil { Add(keyword, len(coll)); AddFlat(coll) }
CollectionClause(keyword, coll) ==
    IF coll # Nil
    THEN AddFlat(<<Str(keyword), IntT(Len(coll.elems))>>, coll.elems)
    ELSE <<>>

\* a plausible bug: the FIELDS clause is emitted for an empty list too
FieldsClauseEmpty(fields) ==
    IF fields # Nil
    THEN AddFlat(<<Str("FIELDS"), IntT(Len(fields.elems))>>, fields.elems)
    ELSE <<>>

\* FIELDS of HIGHLIGHT and SUMMARIZE (query.go 180-183, 189-192):
\* if Fields != nil && len(Fields) > 0 { Add("FIELDS", len(Fields)); AddFlat(Fields) }
FieldsClause(fields) ==
    IF fields # Nil /\ Len(fields.elems) > 0
    THEN AddFlat(<<Str("FIELDS"), IntT(Len(fields.elems))>>, fields.elems)
    ELSE <<>>

\* SortingKey.Serialize (query.go 51-59)
SortingKeySerialize(k) ==
    <<Str(k.Field)>> \o (IF k.Ascending THEN <<Str("ASC")>> ELSE <<Str("DESC")>>)

\* HIGHLIGHT of Query.serialize (query.go 178-185)
HighlightClause(h) ==
    IF h # Nil
    THEN <<Str("HIGHLIGHT")>> \o FieldsClause(h.Fields)
         \o <<Str("TAGS"), Str(h.Tags[1]), Str(h.Tags[2])>>
    ELSE <<>>

\* SUMMARIZE of Query.serialize (query.go 187-202)
SummarizeClause(m) ==
    IF m # Nil
    THEN <<Str("SUMMARIZE")>> \o FieldsClause(m.Fields)
         \o (IF m.FragmentLen > 0 THEN <<Str("LEN"), IntT(m.FragmentLen)>> ELSE <<>>)
         \o (IF m.NumFragments > 0 THEN <<Str("FRAGS"), IntT(m.NumFragments)>> ELSE <<>>)
         \o (IF m.Separator # "" THEN <<Str("SEPARATOR"), Str(m.Separator)>> ELSE <<>>)
    ELSE <<>>

\* Query.serialize (query.go 131-204)
QuerySerialize(qq) ==
    <<Str(qq.Raw)>> \o PagingSerialize(qq.Paging)
    \o FlagTokens(qq.Flags)
    \o CollectionClause("INKEYS", qq.InKeys)
    \o CollectionClause("RETURN", qq.ReturnFields)
    \o (IF qq.Scorer # "" THEN <<Str("SCORER"), Str(qq.Scorer)>> ELSE <<>>)
    \o (IF qq.Language # "" THEN <<Str("LANGUAGE"), Str(qq.Language)>> ELSE <<>>)
    \o (IF qq.Expander # "" THEN <<Str("EXPANDER"), Str(qq.Expander)>> ELSE <<>>)
    \o (IF qq.SortBy # Nil THEN <<Str("SORTBY")>> \o SortingKeySerialize(qq.SortBy) ELSE <<>>)
    \o HighlightClause(qq.HighlightOpts)
    \o SummarizeClause(qq.SummarizeOpts)

\* NewQuery(raw) (query.go 123-129)
NewQuery(raw) ==
    [Raw |-> raw, Paging |-> [Offset |-> DefaultOffset, Num |-> DefaultNum],
     Flags |-> 0, InKeys |-> Nil, ReturnFields |-> Nil, Language |-> "",
     Expander |-> "", Scorer |-> "", SortBy |-> Nil,
     HighlightOpts |-> Nil, SummarizeOpts |-> Nil]

\* a call of q.serialize()
SerializeQuery ==
    /\ qargs = Unset
    /\ qargs' = Slice(QuerySerialize(q))
    /\ UNCHANGED <<q, indexVars, schemaVars, ioVars, aggVars, mgetVars>>

----------------------------------------------------------------------------
(* SerializeSchema (query.go 303-388) *)

TextFieldOptions(weight, noStem, sortable, noIndex) ==
    [type |-> "TextFieldOptions", Weight |-> weight, NoStem |-> noStem,
     Sortable |-> sortable, NoIndex |-> noIndex]
NumericFieldOptions(sortable, noIndex) ==
    [type |-> "NumericFieldOptions", Sortable |-> sortable, NoIndex |-> noIndex]
TagFieldOptions(separator, sortable, noIndex) ==
    [type |-> "TagFieldOptions", Separator |-> separator,
     Sortable |-> sortable, NoIndex |-> noIndex]

Error(msg) == [kind |-> "error", msg |-> msg]

\* fmt.Sprintf("%c", b): the character whose code is b
Chr(b) == CASE b = 44 -> ","
            [] b = 59 -> ";"
            [] b = 124 -> "|"
            [] OTHER -> "?"

\* SORTABLE and NOINDEX, shared by the three field types
SortableNoIndex(o) ==
    (IF o.Sortable THEN <<Str("SORTABLE")>> ELSE <<>>)
    \o (IF o.NoIndex THEN <<Str("NOINDEX")>> ELSE <<>>)

\* case TextField (query.go 324-347)
TextGroup(f) ==
    LET head == <<Str(f.Name), Str("TEXT")>>
        o == f.Options
    IN  IF o = Nil THEN [err |-> Nil, toks |-> head]
        ELSE IF o.type # "TextFieldOptions"
        THEN [err |-> Error("Invalid text field options type"), toks |-> <<>>]
        ELSE [err |-> Nil,
              toks |-> head
                \o (IF o.Weight # 0 /\ o.Weight # 1
                    THEN <<Str("WEIGHT"), IntT(o.Weight)>> ELSE <<>>)
                \o (IF o.NoStem THEN <<Str("NOSTEM")>> ELSE <<>>)
                \o SortableNoIndex(o)]

\* case NumericField (query.go 349-363)
NumericGroup(f) ==
    LET head == <<Str(f.Name), Str("NUMERIC")>>
        o == f.Options
    IN  IF o = Nil THEN [err |-> Nil, toks |-> head]
        ELSE IF o.type # "NumericFieldOptions"
        THEN [err |-> Error("Invalid numeric field options type"), toks |-> <<>>]
        ELSE [err |-> Nil, toks |-> head \o SortableNoIndex(o)]

\* case TagField (query.go 364-381)
TagGroup(f) ==
    LET head == <<Str(f.Name), Str("TAG")>>
        o == f.Options
    IN  IF o = Nil THEN [err |-> Nil, toks |-> head]
        ELSE IF o.type # "TagFieldOptions"
        THEN [err |-> Error("Invalid tag field options type"), toks |-> <<>>]
        ELSE [err |-> Nil,
              toks |-> head
                \o (IF o.Separator # 0
                    THEN <<Str("SEPARATOR"), Str(Chr(o.Separator))>> ELSE <<>>)
                \o SortableNoIndex(o)]

\* a plausible bug: a field of an unsupported type is skipped, and options of
\* the wrong type are ignored
FieldGroupSkip(f) ==
    LET g == CASE f.Type = "TextField" -> TextGroup(f)
               [] f.Type = "NumericField" -> NumericGroup(f)
               [] f.Type = "TagField" -> TagGroup(f)
               [] OTHER -> [err |-> Nil, toks |-> <<>>]
    IN  IF g.err # Nil THEN [err |-> Nil, toks |-> <<>>] ELSE g

\* the body of the loop over s.Fields: switch f.Type (query.go 323-384)
FieldGroup(f) ==
    CASE f.Type = "TextField" -> TextGroup(f)
      [] f.Type = "NumericField" -> NumericGroup(f)
      [] f.Type = "TagField" -> TagGroup(f)
      [] OTHER -> [err |-> Error("Unsupported field type"), toks |-> <<>>]

\* STOPWORDS (query.go 313-318)
StopwordsClause(sw) ==
    IF sw # Nil
    THEN IF Len(sw.elems) > 0
         THEN AddFlat(<<Str("STOPWORDS"), IntT(Len(sw.elems))>>, sw.elems)
         ELSE <<Str("STOPWORDS"), IntT(Len(sw.elems))>>
    ELSE <<>>

\* the global index options and the literal SCHEMA (query.go 304-320)
SchemaHead(o) ==
    (IF o.NoFieldFlags THEN <<Str("NOFIELDS")>> ELSE <<>>)
    \o (IF o.NoFrequencies THEN <<Str("NOFREQS")>> ELSE <<>>)
    \o (IF o.NoOffsetVectors THEN <<Str("NOOFFSETS")>> ELSE <<>>)
    \o StopwordsClause(o.Stopwords)
    \o <<Str("SCHEMA")>>

\* for _, f := range s.Fields (query.go 321-387), from field k on
RECURSIVE SerializeFields(_, _, _)
SerializeFields(fields, k, args) ==
    IF k > Len(fields) THEN [args |-> Slice(args), err |-> Nil]
    ELSE LET g == FieldGroup(fields[k])
         IN  IF g.err # Nil THEN [args |-> Nil, err |-> g.err]
             ELSE SerializeFields(fields, k + 1, args \o g.toks)

\* SerializeSchema (query.go 303-388)
SerializeSchema(sch, args) ==
    SerializeFields(sch.Fields, 1, args \o SchemaHead(sch.Options))

\* the arguments CreateIndex starts from: the index name
SchemaPrefix == <<Str("idx")>>

\* a call of SerializeSchema(s, args)
SerializeSchemaCall ==
    /\ sres = Unset
    /\ sres' = SerializeSchema(s, SchemaPrefix)
    /\ UNCHANGED <<s, indexVars, queryVars, ioVars, aggVars, mgetVars>>

\* the arguments IndexOptions starts from: index name, document id, score
IoPrefix == <<Str("idx"), Str("doc1"), IntT(1)>>

\* a call of SerializeIndexingOptions(opts, args): opts is passed by value, so
\* the coercion of Replace stays in the callee's copy
SerializeIndexingOptionsCall ==
    /\ ioargs = Unset
    /\ ioargs' = Slice(SerializeIndexingOptions(callerOpts, IoPrefix))
    /\ callerOpts' = callerOpts
    /\ UNCHANGED <<indexVars, queryVars, schemaVars, aggVars, mgetVars>>

----------------------------------------------------------------------------
(* Inputs *)

DefaultIndexingOptions ==
    [NoSave |-> FALSE, Language |-> "", Replace |-> FALSE, Partial |-> FALSE,
     ReplaceCondition |-> ""]

\* every IndexingOptions value over two languages and two conditions
IndexingOptionsInputs ==
    [NoSave : BOOLEAN, Language : {"", "english", "chinese"}, Replace : BOOLEAN,
     Partial : BOOLEAN, ReplaceCondition : {"", "@n<5", "@n>5"}]

\* the options IndexOptions is called with
IndexOptsInputs ==
    {DefaultIndexingOptions,
     [DefaultIndexingOptions EXCEPT !.Language = "english", !.Partial = TRUE,
                                    !.ReplaceCondition = "@n<5"]}

KeyNames   == <<"k2", "k1", "k3", "k4">>
FieldNames == <<"f2", "f1", "f3", "f4">>
HlNames    == <<"h2", "h1", "h3", "h4">>
SumNames   == <<"m2", "m1", "m3", "m4">>
StopNames  == <<"w2", "w1", "w3", "w4">>
SchemaNames == <<"n1", "n2", "n3", "n4">>

\* a nil collection, and the non-nil collections of the first k names, k <= MaxLen
Prefixes(names) ==
    {Nil} \cup {Slice(SubSeq(names, 1, k)) : k \in 0..Min(MaxLen, Len(names))}

AllFlags == QueryVerbatim + QueryNoContent + QueryWithScores + QueryInOrder
            + QueryWithPayloads

\* queries that vary paging, flags and the two clauses that follow the flags
QueryInputs ==
    {[NewQuery("hello") EXCEPT !.Paging = [Offset |-> o, Num |-> m], !.Flags = f,
                               !.InKeys = k, !.ReturnFields = r] :
        o \in (-1)..MaxOffset, m \in (-1)..MaxNum, f \in 0..AllFlags,
        k \in {Nil, Slice(<<"k1">>)}, r \in {Nil, Slice(<<"f1">>)}}

HighlightInputs ==
    {Nil} \cup {[Fields |-> c, Tags |-> <<"<b>", "</b>">>] : c \in Prefixes(HlNames)}

SummarizeInputs ==
    {Nil} \cup {[Fields |-> c, FragmentLen |-> 20, NumFragments |-> 0,
                 Separator |-> "..."] : c \in Prefixes(SumNames)}

\* queries that vary the collection-valued clauses
CollQueryInputs ==
    {[NewQuery("hello") EXCEPT !.InKeys = k, !.ReturnFields = r,
                               !.HighlightOpts = h, !.SummarizeOpts = m] :
        k \in Prefixes(KeyNames), r \in Prefixes(FieldNames),
        h \in HighlightInputs, m \in SummarizeInputs}

Field(name, type, options) == [Name |-> name, Type |-> type, Options |-> options]

EmptySchema ==
    [Options |-> [NoFieldFlags |-> FALSE, NoFrequencies |-> FALSE,
                  NoOffsetVectors |-> FALSE, Stopwords |-> Nil],
     Fields |-> <<>>]

\* schemas of one text field that vary the stopword list
CollSchemaInputs ==
    {[EmptySchema EXCEPT !.Options.Stopwords = w,
                         !.Fields = <<Field("n1", "TextField", Nil)>>] :
        w \in Prefixes(StopNames)}

\* the type and options of a field: each supported type without options, with
\* options of its own type and with options of another type, and a type
\* SerializeSchema does not know
FieldShapes ==
    {<<"TextField", Nil>>,
     <<"TextField", TextFieldOptions(1, FALSE, FALSE, FALSE)>>,
     <<"TextField", TextFieldOptions(2, TRUE, TRUE, TRUE)>>,
     <<"TextField", TextFieldOptions(0, FALSE, TRUE, FALSE)>>,
     <<"TextField", NumericFieldOptions(TRUE, FALSE)>>,
     <<"NumericField", Nil>>,
     <<"NumericField", NumericFieldOptions(TRUE, TRUE)>>,
     <<"NumericField", NumericFieldOptions(FALSE, FALSE)>>,
     <<"NumericField", TagFieldOptions(44, FALSE, FALSE)>>,
     <<"TagField", Nil>>,
     <<"TagField", TagFieldOptions(44, TRUE, FALSE)>>,
     <<"TagField", TagFieldOptions(0, FALSE, TRUE)>>,
     <<"TagField", TextFieldOptions(1, FALSE, FALSE, FALSE)>>,
     <<"GeoField", Nil>>}

\* the field lists of at most MaxFields fields, named by position
FieldLists ==
    UNION {{[k \in 1..len |-> Field(SchemaNames[k], sh[k][1], sh[k][2])] :
                sh \in [1..len -> FieldShapes]} :
           len \in 0..Min(MaxFields, Len(SchemaNames))}

SchemaInputs ==
    {[Options |-> [NoFieldFlags |-> a, NoFrequencies |-> b,
                   NoOffsetVectors |-> c, Stopwords |-> w],
      Fields |-> fs] :
        a \in BOOLEAN, b \in BOOLEAN, c \in BOOLEAN,
        w \in Prefixes(StopNames), fs \in FieldLists}

----------------------------------------------------------------------------
(* Specifications *)

IndexIdle ==
    /\ pc = "idle" /\ ndocs = 0 /\ opts = DefaultIndexingOptions
    /\ ii = 0 /\ n = 0 /\ merr = Nil /\ ret = Pending /\ conn = "none"
    /\ calls = <<>> /\ pending = <<>> /\ gets = 0 /\ closes = 0
QueryIdle == q = NewQuery("hello") /\ qargs = Unset
SchemaIdle == s = EmptySchema /\ sres = Unset
IoIdle == callerOpts = DefaultIndexingOptions /\ ioargs = Unset
AggIdle ==
    /\ bpc = "idle" /\ bN = 0 /\ bn = 0 /\ withCursor = FALSE /\ cursorId = 0
    /\ cmds = <<>>
MgetIdle == store = {} /\ ids = <<>> /\ mres = Unset
OthersIdle == AggIdle /\ MgetIdle

\* one call of Client.IndexOptions on a batch of at most MaxDocs documents
Init ==
    /\ pc = "start" /\ ndocs \in 0..MaxDocs /\ opts \in IndexOptsInputs
    /\ ii = 0 /\ n = 0 /\ merr = Nil /\ ret = Pending /\ conn = "none"
    /\ calls = <<>> /\ pending = <<>> /\ gets = 0 /\ closes = 0
    /\ QueryIdle /\ SchemaIdle /\ IoIdle /\ OthersIdle

Next ==
    \/ Acquire /\ UNCHANGED <<queryVars, schemaVars, ioVars, aggVars, mgetVars>>
    \/ \E ok \in BOOLEAN : SendStep(ok) /\ UNCHANGED <<queryVars, schemaVars, ioVars, aggVars, mgetVars>>
    \/ \E ok \in BOOLEAN : FlushStep(ok) /\ UNCHANGED <<queryVars, schemaVars, ioVars, aggVars, mgetVars>>
    \/ \E ok \in BOOLEAN : ReceiveStep(ok) /\ UNCHANGED <<queryVars, schemaVars, ioVars, aggVars, mgetVars>>
    \/ Finish /\ UNCHANGED <<queryVars, schemaVars, ioVars, aggVars, mgetVars>>

Spec == Init /\ [][Next]_vars

\* Query.serialize over paging, flags, in-keys and return-fields
InitQuery ==
    /\ IndexIdle /\ SchemaIdle /\ IoIdle /\ OthersIdle
    /\ q \in QueryInputs /\ qargs = Unset
NextQuery == SerializeQuery
SpecQuery == InitQuery /\ [][NextQuery]_vars

\* Query.serialize and SerializeSchema over the collection-valued clauses
InitColl ==
    /\ IndexIdle /\ IoIdle /\ OthersIdle
    /\ q \in CollQueryInputs /\ qargs = Unset
    /\ s \in CollSchemaInputs /\ sres = Unset
NextColl == SerializeQuery \/ SerializeSchemaCall
SpecColl == InitColl /\ [][NextColl]_vars

\* SerializeSchema over index options and field lists
InitSchema ==
    /\ IndexIdle /\ QueryIdle /\ IoIdle /\ OthersIdle
    /\ s \in SchemaInputs /\ sres = Unset
NextSchema == SerializeSchemaCall
SpecSchema == InitSchema /\ [][NextSchema]_vars

\* SerializeIndexingOptions over every option value
InitIo ==
    /\ IndexIdle /\ QueryIdle /\ SchemaIdle /\ OthersIdle
    /\ callerOpts \in IndexingOptionsInputs /\ ioargs = Unset
NextIo == SerializeIndexingOptionsCall
SpecIo == InitIo /\ [][NextIo]_vars

----------------------------------------------------------------------------
(* Properties of Client.IndexOptions *)

CallsOf(op) == {j \in DOMAIN calls : calls[j].op = op}
FailedCalls(op) == {j \in CallsOf(op) : ~calls[j].ok}
AllSendsOk == Cardinality(CallsOf("Send") \ FailedCalls("Send")) = ndocs
FlushOk == \E j \in CallsOf("Flush") : calls[j].ok
\* the documents whose reply was an error
FailedReplies == {calls[j].doc : j \in FailedCalls("Receive")}
IsMultiError(v, len) == v.kind = "MultiError" /\ DOMAIN v.slots = 0..(len - 1)
Populated(v) == {k \in DOMAIN v.slots : v.slots[k] # NoErr}

\* C1: when every Send and the Flush succeed and the reply for document k is
\* the only failing Receive, the returned MultiError has length N and exactly
\* one populated slot, the slot k.
C1_SlotAlignedWithBatch ==
    (pc = "done" /\ AllSendsOk /\ FlushOk /\ Cardinality(FailedReplies) = 1)
        => /\ IsMultiError(ret, ndocs)
           /\ Populated(ret) = FailedReplies

\* C2: a Send that fails for document i is the last call made on the
\* connection (no later Send, no Flush, no Receive), the call has returned,
\* and the value returned is a MultiError of length N whose slot i holds the
\* send failure and whose other slots are absent.
C2_SendFailureAborts ==
    \A j \in FailedCalls("Send") :
        /\ j = Len(calls)
        /\ CallsOf("Flush") = {}
        /\ CallsOf("Receive") = {}
        /\ \A k \in CallsOf("Send") : k <= j /\ calls[k].doc = k - 1
        /\ pc = "done"
        /\ IsMultiError(ret, ndocs)
        /\ ret.slots[calls[j].doc] = SendErr(calls[j].doc)
        /\ Populated(ret) = {calls[j].doc}

C2_Witness ==
    /\ pc = "done" /\ ndocs = 3
    /\ \E j \in FailedCalls("Send") : calls[j].doc = 1

\* C3: Receive is never called more than N times, and once all N Sends and
\* the Flush have succeeded the call returns only after exactly N Receives,
\* however many of them failed; each failed Receive is recorded in merr.
C3_DrainsExactlyN ==
    /\ Cardinality(CallsOf("Receive")) <= ndocs
    /\ (pc = "done" /\ AllSendsOk /\ FlushOk)
          => Cardinality(CallsOf("Receive")) = ndocs
    /\ \A j \in FailedCalls("Receive") :
          /\ merr # Nil
          /\ \E k \in DOMAIN merr.slots : merr.slots[k] = ReceiveErr(calls[j].doc)

C3_Witness ==
    /\ pc = "done" /\ ndocs = 3
    /\ Cardinality(CallsOf("Receive")) = 3
    /\ FailedReplies = {0, 1}

\* C4: IndexOptions returns nil exactly when every Send, the Flush and every
\* Receive succeeded; when a MultiError slot was populated the value returned
\* is that non-nil MultiError, so nil is never returned with a failure recorded.
C4_NilIffAllSucceeded ==
    /\ pc # "done" => ret = Pending
    /\ pc = "done" =>
          /\ ret # Pending
          /\ (ret = Nil) <=> (\A j \in DOMAIN calls : calls[j].ok)
          /\ (merr # Nil /\ Populated(merr) # {})
                => (ret = merr /\ IsMultiError(ret, ndocs))
          /\ (ret = Nil) => merr = Nil

C4_Witness ==
    /\ pc = "done" /\ ndocs = 3 /\ ret = Nil
    /\ Cardinality(CallsOf("Receive")) = 3

\* C5: a Flush that fails after all N Sends were queued is the last call made
\* on the connection: the call has returned one single error (the Flush
\* error, not a MultiError) and no Receive was attempted.
C5_FlushFailureIsTerminal ==
    \A j \in FailedCalls("Flush") :
        /\ j = Len(calls)
        /\ Cardinality(CallsOf("Send")) = ndocs
        /\ FailedCalls("Send") = {}
        /\ CallsOf("Receive") = {}
        /\ pc = "done"
        /\ ret = [kind |-> "error", err |-> FlushErr]
        /\ merr = Nil

C5_Witness ==
    /\ pc = "done" /\ ndocs = 3
    /\ FailedCalls("Flush") # {}
    /\ Len(pending) = 3

----------------------------------------------------------------------------
(* Properties of Paging.serialize and Query.serialize *)

Positions(a, tok) == {j \in DOMAIN a : a[j] = tok}
Count(a, tok) == Cardinality(Positions(a, tok))
\* the first position of tok in a (0 when a does not hold it)
IndexOf(a, tok) ==
    IF Positions(a, tok) = {} THEN 0
    ELSE CHOOSE j \in Positions(a, tok) : \A k \in Positions(a, tok) : j <= k
Strs(xs) == [k \in 1..Len(xs) |-> Str(xs[k])]

\* C6: the serialized query holds no LIMIT exactly when offset = 0 and
\* num = 10; for every other paging it holds LIMIT once, followed by the
\* offset and the num, right after the raw query.
C6_LimitIffNotDefault ==
    qargs # Unset =>
        LET a == qargs.elems
            o == q.Paging.Offset
            m == q.Paging.Num
        IN  /\ (Count(a, Str("LIMIT")) = 0) <=> (o = 0 /\ m = 10)
            /\ Count(a, Str("LIMIT")) <= 1
            /\ ~(o = 0 /\ m = 10) =>
                  /\ Len(a) >= 4
                  /\ SubSeq(a, 2, 4) = <<Str("LIMIT"), IntT(o), IntT(m)>>

C6_Witness ==
    /\ qargs # Unset
    /\ q.Paging = [Offset |-> 0, Num |-> 5]
    /\ Count(qargs.elems, Str("LIMIT")) = 1

\* the flag tokens in their canonical order, with the bit each stands for
CanonicalFlags ==
    << <<"VERBATIM", 1>>, <<"NOCONTENT", 2>>, <<"INORDER", 8>>,
       <<"WITHPAYLOADS", 16>>, <<"WITHSCORES", 4>> >>
IsFlagToken(tok) == \E k \in DOMAIN CanonicalFlags : tok = Str(CanonicalFlags[k][1])
FlagIsSet(entry) == (q.Flags \div entry[2]) % 2 = 1
ExpectedFlagTokens ==
    LET sel == SelectSeq(CanonicalFlags, FlagIsSet)
    IN  [k \in 1..Len(sel) |-> Str(sel[k][1])]

\* C7: the flag tokens of the serialized query are one token per set bit, in
\* the order VERBATIM, NOCONTENT, INORDER, WITHPAYLOADS, WITHSCORES; they
\* stand together right after the raw query and the LIMIT clause, and before
\* INKEYS and RETURN.
C7_FlagsInCanonicalOrder ==
    qargs # Unset =>
        LET a == qargs.elems
            first == IF Count(a, Str("LIMIT")) = 0 THEN 2 ELSE 5
            k == Len(ExpectedFlagTokens)
        IN  /\ a[1] = Str(q.Raw)
            /\ SelectSeq(a, IsFlagToken) = ExpectedFlagTokens
            /\ Len(a) >= first + k - 1
            /\ SubSeq(a, first, first + k - 1) = ExpectedFlagTokens
            /\ \A j \in Positions(a, Str("INKEYS")) \cup Positions(a, Str("RETURN")) :
                  j >= first + k

C7_Witness ==
    /\ qargs # Unset
    /\ q.Flags = 31
    /\ q.Paging = [Offset |-> 1, Num |-> 10]
    /\ q.InKeys # Nil /\ q.ReturnFields # Nil
    /\ Count(qargs.elems, Str("WITHSCORES")) = 1

----------------------------------------------------------------------------
(* Properties of the collection-valued clauses *)

\* a holds keyword once, followed by the count and the elements of coll
ClauseEmitted(a, keyword, coll) ==
    /\ Count(a, Str(keyword)) = 1
    /\ LET p == IndexOf(a, Str(keyword))
           len == Len(coll.elems)
       IN  /\ Len(a) >= p + 1 + len
           /\ a[p + 1] = IntT(len)
           /\ SubSeq(a, p + 2, p + 1 + len) = Strs(coll.elems)

\* nil omits the clause, a non-nil collection (empty or not) emits it
NilOmitsEmptyEmits(a, keyword, coll) ==
    IF coll = Nil THEN Count(a, Str(keyword)) = 0
    ELSE ClauseEmitted(a, keyword, coll)

\* a holds FIELDS, the count and the elements of fields right after position p
FieldsEmittedAt(a, p, fields) ==
    LET len == Len(fields.elems)
    IN  /\ Len(a) >= p + 2 + len
        /\ a[p + 1] = Str("FIELDS")
        /\ a[p + 2] = IntT(len)
        /\ SubSeq(a, p + 3, p + 2 + len) = Strs(fields.elems)

NoFieldsAt(a, p) == Len(a) = p \/ a[p + 1] # Str("FIELDS")

\* the field list of the clause that starts with keyword: nil omits FIELDS,
\* a non-nil list (empty or not) emits it
FieldsNilOmitsEmptyEmits(a, keyword, o) ==
    o # Nil =>
        /\ Count(a, Str(keyword)) = 1
        /\ IF o.Fields = Nil THEN NoFieldsAt(a, IndexOf(a, Str(keyword)))
           ELSE FieldsEmittedAt(a, IndexOf(a, Str(keyword)), o.Fields)

\* the field list of the clause that starts with keyword: a nil or empty list
\* omits FIELDS, a non-empty list emits it
FieldsEmptyOmits(a, keyword, o) ==
    o # Nil =>
        /\ Count(a, Str(keyword)) = 1
        /\ IF o.Fields = Nil \/ Len(o.Fields.elems) = 0
           THEN NoFieldsAt(a, IndexOf(a, Str(keyword)))
           ELSE FieldsEmittedAt(a, IndexOf(a, Str(keyword)), o.Fields)

QueryCollections(a) ==
    /\ NilOmitsEmptyEmits(a, "INKEYS", q.InKeys)
    /\ NilOmitsEmptyEmits(a, "RETURN", q.ReturnFields)

SchemaCollections ==
    (sres # Unset /\ sres.err = Nil) =>
        NilOmitsEmptyEmits(sres.args.elems, "STOPWORDS", s.Options.Stopwords)

\* C8 as stated: for in-keys, return-fields, stopwords and the field lists of
\* highlight and summarize, a nil collection omits the clause, an empty
\* non-nil collection emits the keyword and the count 0, and a non-empty one
\* emits keyword, count and the elements in order.
C8_EveryCollectionNilVsEmpty ==
    /\ SchemaCollections
    /\ qargs # Unset =>
          /\ QueryCollections(qargs.elems)
          /\ FieldsNilOmitsEmptyEmits(qargs.elems, "HIGHLIGHT", q.HighlightOpts)
          /\ FieldsNilOmitsEmptyEmits(qargs.elems, "SUMMARIZE", q.SummarizeOpts)

\* C8 as amended: in-keys, return-fields and stopwords tell nil (clause
\* omitted) from empty (keyword and count 0) and emit keyword, count and
\* elements in order otherwise; the field lists of highlight and summarize
\* omit FIELDS for a nil and for an empty list alike, and emit FIELDS, count
\* and elements in order for a non-empty one.
C8_CollectionsAmended ==
    /\ SchemaCollections
    /\ qargs # Unset =>
          /\ QueryCollections(qargs.elems)
          /\ FieldsEmptyOmits(qargs.elems, "HIGHLIGHT", q.HighlightOpts)
          /\ FieldsEmptyOmits(qargs.elems, "SUMMARIZE", q.SummarizeOpts)

C8_Witness ==
    /\ qargs # Unset /\ sres # Unset
    /\ q.InKeys = Slice(<<>>) /\ q.ReturnFields # Nil /\ Len(q.ReturnFields.elems) = 2
    /\ s.Options.Stopwords = Slice(<<>>)
    /\ q.HighlightOpts # Nil /\ q.HighlightOpts.Fields = Slice(<<>>)
    /\ q.SummarizeOpts # Nil /\ q.SummarizeOpts.Fields # Nil
    /\ Len(q.SummarizeOpts.Fields.elems) = 2
    /\ Count(qargs.elems, Str("FIELDS")) = 1
    /\ Count(qargs.elems, Str("INKEYS")) = 1

----------------------------------------------------------------------------
(* Properties of SerializeIndexingOptions *)

IoKeywords == <<"NOSAVE", "LANGUAGE", "REPLACE", "PARTIAL", "IF">>
IsIoKeyword(tok) == \E k \in DOMAIN IoKeywords : tok = Str(IoKeywords[k])
\* the keywords the caller's options ask for
IoWanted(keyword) ==
    CASE keyword = "NOSAVE" -> callerOpts.NoSave
      [] keyword = "LANGUAGE" -> callerOpts.Language # ""
      [] keyword = "REPLACE" -> callerOpts.Replace \/ callerOpts.Partial
      [] keyword = "PARTIAL" -> callerOpts.Partial
      [] keyword = "IF" -> (callerOpts.Replace \/ callerOpts.Partial)
                            /\ callerOpts.ReplaceCondition # ""
\* the tokens SerializeIndexingOptions appended to the arguments it was given
IoEmitted == SubSeq(ioargs.elems, Len(IoPrefix) + 1, Len(ioargs.elems))

IoTokensInOrder ==
    ioargs # Unset =>
        /\ ioargs.kind = "slice"
        /\ Len(ioargs.elems) >= Len(IoPrefix)
        /\ SubSeq(ioargs.elems, 1, Len(IoPrefix)) = IoPrefix
        /\ LET out == IoEmitted
               at(keyword) == IndexOf(out, Str(keyword))
           IN  /\ SelectSeq(out, IsIoKeyword) = Strs(SelectSeq(IoKeywords, IoWanted))
               /\ Len(out) = Len(SelectSeq(IoKeywords, IoWanted))
                             + (IF IoWanted("LANGUAGE") THEN 1 ELSE 0)
                             + (IF IoWanted("IF") THEN 1 ELSE 0)
               /\ IoWanted("LANGUAGE") => out[at("LANGUAGE") + 1] = Str(callerOpts.Language)
               /\ IoWanted("IF") => out[at("IF") + 1] = Str(callerOpts.ReplaceCondition)
               /\ callerOpts.Partial =>
                     /\ at("REPLACE") > 0
                     /\ out[at("REPLACE") + 1] = Str("PARTIAL")
               /\ at("PARTIAL") > 0 => (at("REPLACE") > 0 /\ at("REPLACE") < at("PARTIAL"))
               /\ at("IF") > 0 => (at("REPLACE") > 0 /\ at("REPLACE") < at("IF"))

\* C9: SerializeIndexingOptions always returns an argument list; the tokens
\* it appends are NOSAVE, LANGUAGE <lang>, REPLACE, PARTIAL, IF <condition>
\* in that order, each present exactly when the options ask for it, with
\* REPLACE present (and immediately followed by PARTIAL) whenever Partial is
\* set; PARTIAL and IF never appear without a REPLACE before them; and the
\* caller's options are the same after the call as before it.
C9_IndexingOptionsOrder ==
    /\ []IoTokensInOrder
    /\ [][callerOpts' = callerOpts]_vars

C9_Witness ==
    /\ ioargs # Unset
    /\ callerOpts.Partial /\ ~callerOpts.Replace
    /\ callerOpts.NoSave /\ callerOpts.Language # "" /\ callerOpts.ReplaceCondition # ""
    /\ Len(IoEmitted) = 7

----------------------------------------------------------------------------
(* Properties of SerializeSchema *)

SupportedTypes == {"TextField", "NumericField", "TagField"}
OptionsTypeOf(type) ==
    CASE type = "TextField" -> "TextFieldOptions"
      [] type = "NumericField" -> "NumericFieldOptions"
      [] type = "TagField" -> "TagFieldOptions"
TypeToken(type) ==
    CASE type = "TextField" -> Str("TEXT")
      [] type = "NumericField" -> Str("NUMERIC")
      [] type = "TagField" -> Str("TAG")
\* a field SerializeSchema cannot serialize
BadField(f) ==
    \/ f.Type \notin SupportedTypes
    \/ f.Options # Nil /\ f.Options.type # OptionsTypeOf(f.Type)

GlobalKeywords == <<"NOFIELDS", "NOFREQS", "NOOFFSETS", "STOPWORDS">>
IsGlobalKeyword(tok) == \E k \in DOMAIN GlobalKeywords : tok = Str(GlobalKeywords[k])
GlobalWanted(keyword) ==
    CASE keyword = "NOFIELDS" -> s.Options.NoFieldFlags
      [] keyword = "NOFREQS" -> s.Options.NoFrequencies
      [] keyword = "NOOFFSETS" -> s.Options.NoOffsetVectors
      [] keyword = "STOPWORDS" -> s.Options.Stopwords # Nil
IsFieldName(tok) == \E k \in DOMAIN s.Fields : tok = Str(s.Fields[k].Name)
FieldNamesOf(fields) == [k \in 1..Len(fields) |-> Str(fields[k].Name)]

\* the tokens of field k's group in tail: from its name up to the next name
GroupOf(tail, k) ==
    LET from == IndexOf(tail, Str(s.Fields[k].Name))
        to == IF k < Len(s.Fields)
              THEN IndexOf(tail, Str(s.Fields[k + 1].Name)) - 1
              ELSE Len(tail)
    IN  SubSeq(tail, from, to)

SchemaArgsInOrder(a) ==
    /\ Count(a, Str("SCHEMA")) = 1
    /\ LET p == IndexOf(a, Str("SCHEMA"))
           head == SubSeq(a, 1, p - 1)
           tail == SubSeq(a, p + 1, Len(a))
       IN  /\ Len(head) >= Len(SchemaPrefix)
           /\ SubSeq(head, 1, Len(SchemaPrefix)) = SchemaPrefix
           /\ SelectSeq(head, IsGlobalKeyword) = Strs(SelectSeq(GlobalKeywords, GlobalWanted))
           /\ SelectSeq(head, IsFieldName) = <<>>
           /\ SelectSeq(tail, IsGlobalKeyword) = <<>>
           /\ SelectSeq(tail, IsFieldName) = FieldNamesOf(s.Fields)
           /\ Len(s.Fields) = 0 => tail = <<>>
           /\ \A k \in DOMAIN s.Fields :
                 LET g == GroupOf(tail, k)
                     o == s.Fields[k].Options
                 IN  /\ k = 1 => IndexOf(tail, Str(s.Fields[k].Name)) = 1
                     /\ Len(g) >= 2
                     /\ g[1] = Str(s.Fields[k].Name)
                     /\ g[2] = TypeToken(s.Fields[k].Type)
                     /\ (Count(g, Str("SORTABLE")) = 1) <=> (o # Nil /\ o.Sortable)
                     /\ (Count(g, Str("NOINDEX")) = 1) <=> (o # Nil /\ o.NoIndex)

\* C10: SerializeSchema returns an error and no argument list exactly when
\* some field has an unsupported type or non-nil options of another type
\* than the field's; otherwise the arguments hold the global index options
\* (NOFIELDS, NOFREQS, NOOFFSETS, STOPWORDS) first, then SCHEMA exactly once,
\* then one name/type/options group per field in declaration order.
C10_SchemaOrderAndErrors ==
    sres # Unset =>
        /\ (sres.err # Nil) <=> (\E k \in DOMAIN s.Fields : BadField(s.Fields[k]))
        /\ sres.err # Nil => sres.args = Nil
        /\ sres.err = Nil => (sres.args # Nil /\ SchemaArgsInOrder(sres.args.elems))

C10_Witness ==
    /\ sres # Unset
    /\ Len(s.Fields) = 2
    /\ ~BadField(s.Fields[1]) /\ BadField(s.Fields[2])
    /\ sres.err # Nil /\ sres.args = Nil

----------------------------------------------------------------------------
(* The connection of Client.IndexOptions *)

ConnectionOwned ==
    /\ gets <= 1 /\ closes <= 1
    /\ pc = "start" => (gets = 0 /\ closes = 0 /\ conn = "none" /\ calls = <<>>)
    /\ pc \in {"send", "flush", "receive"} => (gets = 1 /\ closes = 0 /\ conn = "open")
    /\ pc = "done" => (gets = 1 /\ closes = 1 /\ conn = "closed" /\ ret # Pending)

\* C13: a call of IndexOptions gets one connection from the pool and closes
\* it exactly once when it returns, whichever way it returns (after the last
\* Receive, on a failed Send, on a failed Flush); Send, Flush and Receive are
\* only ever called while the connection is open, and the connection, once
\* closed, is never reopened or closed again.
C13_OneConnectionClosedOnce ==
    /\ []ConnectionOwned
    /\ [][calls' # calls => (conn = "open" /\ gets = 1 /\ closes = 0)]_vars
    /\ [][conn = "closed" => (conn' = "closed" /\ closes' = closes /\ gets' = gets
                               /\ calls' = calls)]_vars

C13_Witness ==
    /\ pc = "done" /\ ndocs = 3
    /\ gets = 1 /\ closes = 1 /\ conn = "closed"
    /\ FailedReplies = {1}
    /\ Cardinality(CallsOf("Receive")) = 3

----------------------------------------------------------------------------
(* The aggregate cursor protocol: Client.Aggregate, CursorHasResults and    *)
(* the read loop of benchmarkAggregateCursor                                *)

\* AggregateQuery.CursorHasResults: the handle stored on the query is non-zero
CursorHasResults == cursorId # 0

\* what the server answers: an error, or rows with a cursor handle (0 when the
\* cursor is exhausted or the query asked for none)
AggReplies ==
    {[ok |-> FALSE, handle |-> 0]} \cup {[ok |-> TRUE, handle |-> h] : h \in 0..MaxHandle}

\* Client.Aggregate(q): the initial FT.AGGREGATE when no handle is stored, a
\* cursor read carrying the stored handle otherwise; the handle of the reply
\* is stored on the query, and an error leaves no handle to read from
Aggregate(reply) ==
    /\ cmds' = Append(cmds,
                [cmd |-> IF CursorHasResults THEN "FT.CURSOR READ" ELSE "FT.AGGREGATE",
                 handle |-> cursorId,
                 withCursor |-> withCursor /\ ~CursorHasResults,
                 ok |-> reply.ok,
                 reply |-> reply.handle])
    /\ cursorId' = IF reply.ok /\ withCursor THEN reply.handle ELSE 0

\* the replies the server can give to the next command: a handle only to a
\* query with a cursor, and at most MaxReads batches before it is exhausted
PossibleReplies ==
    {r \in AggReplies :
        r.handle # 0 => (withCursor /\ Len(cmds) < MaxReads)}

\* for n := 0; n < b.N; n++ (part_000 48)
BenchOuter ==
    /\ bpc = "outer"
    /\ IF bn < bN
       THEN /\ bpc' = "aggregate"
            /\ cmds' = <<>>
       ELSE /\ bpc' = "done"
            /\ UNCHANGED cmds
    /\ UNCHANGED <<bN, bn, withCursor, cursorId>>

\* c.Aggregate(q) (part_000 49)
BenchAggregate(reply) ==
    /\ bpc = "aggregate"
    /\ Aggregate(reply)
    /\ bpc' = "check"
    /\ UNCHANGED <<bN, bn, withCursor>>

\* a plausible bug: the loop condition is negated
BenchCheckNegated ==
    /\ bpc = "check"
    /\ IF ~CursorHasResults
       THEN /\ bpc' = "read"
            /\ UNCHANGED bn
       ELSE /\ bpc' = "outer"
            /\ bn' = bn + 1
    /\ UNCHANGED <<bN, withCursor, cursorId, cmds>>

\* for q.CursorHasResults() (part_000 50): enter the body, or leave the
\* inner loop and count the iteration of the outer one
BenchCheck ==
    /\ bpc = "check"
    /\ IF CursorHasResults
       THEN /\ bpc' = "read"
            /\ UNCHANGED bn
       ELSE /\ bpc' = "outer"
            /\ bn' = bn + 1
    /\ UNCHANGED <<bN, withCursor, cursorId, cmds>>

\* c.Aggregate(q) in the body of the inner loop (part_000 51)
BenchRead(reply) ==
    /\ bpc = "read"
    /\ Aggregate(reply)
    /\ bpc' = "check"
    /\ UNCHANGED <<bN, bn, withCursor>>

\* benchmarkAggregateCursor(c, q, b) with b.N <= MaxBenchN
InitAgg ==
    /\ IndexIdle /\ QueryIdle /\ SchemaIdle /\ IoIdle /\ MgetIdle
    /\ bpc = "outer" /\ bN \in 1..MaxBenchN /\ bn = 0
    /\ withCursor \in BOOLEAN /\ cursorId = 0 /\ cmds = <<>>

NextAgg ==
    \/ BenchOuter /\ UNCHANGED <<indexVars, queryVars, schemaVars, ioVars, mgetVars>>
    \/ \E r \in PossibleReplies :
          BenchAggregate(r) /\ UNCHANGED <<indexVars, queryVars, schemaVars, ioVars, mgetVars>>
    \/ BenchCheck /\ UNCHANGED <<indexVars, queryVars, schemaVars, ioVars, mgetVars>>
    \/ \E r \in PossibleReplies :
          BenchRead(r) /\ UNCHANGED <<indexVars, queryVars, schemaVars, ioVars, mgetVars>>

SpecAgg == InitAgg /\ [][NextAgg]_vars

\* the last reply of this iteration carried a non-zero handle
LastReplyHasHandle ==
    /\ cmds # <<>>
    /\ cmds[Len(cmds)].ok
    /\ cmds[Len(cmds)].reply # 0

\* C11: CursorHasResults is true exactly when the last reply carried a
\* non-zero handle (that handle is the one stored on the query) and false
\* once a reply carried handle 0; in the loop "Aggregate; while
\* CursorHasResults: Aggregate" the first command is the aggregate query,
\* every later one is a cursor read carrying the handle of the reply before
\* it, and nothing is issued after a reply with handle 0: the loop is left
\* only then.
C11_HasMoreIffHandleNonZero ==
    /\ CursorHasResults <=> LastReplyHasHandle
    /\ LastReplyHasHandle => cursorId = cmds[Len(cmds)].reply
    /\ \A j \in DOMAIN cmds :
          /\ j < Len(cmds) => (cmds[j].ok /\ cmds[j].reply # 0)
          /\ (cmds[j].cmd = "FT.AGGREGATE") <=> (j = 1)
          /\ (cmds[j].cmd = "FT.CURSOR READ") <=> (j > 1)
          /\ j > 1 => cmds[j].handle = cmds[j - 1].reply
    /\ bpc = "read" => LastReplyHasHandle
    /\ (bpc \in {"outer", "done"} /\ bn > 0) => (cmds # <<>> /\ ~LastReplyHasHandle)

C11_Witness ==
    /\ bpc = "outer" /\ bn = 1
    /\ Len(cmds) = 3
    /\ cmds[1].reply # 0 /\ cmds[2].reply # 0
    /\ cmds[3].ok /\ cmds[3].reply = 0
    /\ ~CursorHasResults

----------------------------------------------------------------------------
(* Client.MultiGet and the decoding of its reply *)

\* the identifiers the test indexes, and one it never indexes
IndexedIds == {"doc-get-1", "doc-get-2"}
RequestIds == IndexedIds \cup {"dont-exist"}

\* the content of the field "foo" of each indexed document
Content(id) == IF id = "doc-get-1" THEN "Hello world 1" ELSE "Hello world 2"

\* the reply of FT.MGET: one entry per requested identifier, in request order;
\* nil for a document the index does not hold, the flat field/value array of
\* the document otherwise
ServerMGet(req) ==
    [j \in 1..Len(req) |->
        IF req[j] \in store THEN Slice(<<Str("foo"), Str(Content(req[j]))>>) ELSE Nil]

\* Document.loadFields: a flat field/value array as a field -> value mapping,
\* here the set of its (field, value) pairs
LoadFields(arr) == {<<arr[2 * k - 1].v, arr[2 * k].v>> : k \in 1..(Len(arr) \div 2)}

\* NewDocument(id, 1.0) with the fields of the reply loaded
Document(id, arr) == [Id |-> id, Score |-> 1, Properties |-> LoadFields(arr)]

\* a plausible bug: the documents found are appended one after the other, so
\* the positions of the missing ones are lost
RECURSIVE DecodeMGetCompact(_, _)
DecodeMGetCompact(req, reply) ==
    IF reply = <<>> THEN <<>>
    ELSE IF Head(reply) = Nil THEN DecodeMGetCompact(Tail(req), Tail(reply))
         ELSE <<Document(Head(req), Head(reply).elems)>>
              \o DecodeMGetCompact(Tail(req), Tail(reply))

\* the decoding of the reply of FT.MGET: docs has one slot per requested
\* identifier; a nil entry of the reply leaves its slot nil, any other entry
\* is decoded into the document of the identifier at that position
DecodeMGet(req, reply) ==
    [j \in 1..Len(req) |->
        IF reply[j] = Nil THEN Nil ELSE Document(req[j], reply[j].elems)]

\* Client.MultiGet(documentIds)
MultiGet(req) == [docs |-> DecodeMGet(req, ServerMGet(req)), err |-> Nil]

\* a call of i.MultiGet(tt.args.documentIds) (part_000 185)
MultiGetCall ==
    /\ mres = Unset
    /\ mres' = MultiGet(ids)
    /\ UNCHANGED <<store, ids, indexVars, queryVars, schemaVars, ioVars, aggVars>>

\* the requests of at most MaxIds identifiers
IdLists == UNION {[1..len -> RequestIds] : len \in 1..MaxIds}

\* MultiGet over every request and every content of the index
InitMget ==
    /\ IndexIdle /\ QueryIdle /\ SchemaIdle /\ IoIdle /\ AggIdle
    /\ store \in SUBSET IndexedIds /\ ids \in IdLists /\ mres = Unset
NextMget == MultiGetCall
SpecMget == InitMget /\ [][NextMget]_vars

\* C12: MultiGet returns no error and as many entries as identifiers were
\* requested; entry j is nil when the index does not hold identifier j, and
\* otherwise the document with identifier j and its stored fields: entries
\* are neither reordered nor compacted.
C12_MultiGetAligned ==
    mres # Unset =>
        /\ mres.err = Nil
        /\ Len(mres.docs) = Len(ids)
        /\ \A j \in 1..Len(ids) :
              IF ids[j] \in store
              THEN /\ mres.docs[j] # Nil
                   /\ mres.docs[j].Id = ids[j]
                   /\ mres.docs[j].Properties = {<<"foo", Content(ids[j])>>}
              ELSE mres.docs[j] = Nil

C12_Witness ==
    /\ mres # Unset
    /\ ids = <<"dont-exist", "doc-get-1", "doc-get-2">>
    /\ store = IndexedIds
    /\ mres.docs[1] = Nil
    /\ mres.docs[2] # Nil /\ mres.docs[2].Id = "doc-get-1"
    /\ mres.docs[3] # Nil /\ mres.docs[3].Id = "doc-get-2"

====
